---- MODULE Spec2Model ----
(***************************************************************************)
(* Model of thread.cpp: a global atomic sequence counter, the timestamp    *)
(* formatter, the log emitter print_thread_output, the two worker shapes   *)
(* (Foo::member_function, free_function) and main, which logs once,       *)
(* prints the hardware-concurrency line, starts the workers and joins      *)
(* them.                                                                   *)
(*                                                                         *)
(* Granularity.  Every access to a shared object is one step: the          *)
(* fetch_add on seq_counter, and every single stream insertion             *)
(* (operator<<) into cout.  One insertion puts its characters on the       *)
(* console contiguously; two insertions of one statement are two steps,    *)
(* between which another thread may insert.  Thread-local work (building   *)
(* the stringstream, arguments, returns) is folded into the next shared    *)
(* step of the same thread.                                                *)
(***************************************************************************)
EXTENDS Integers, Sequences, FiniteSets, TLC

\* Number of Foo member-function workers (thread.cpp:148 uses 4) and of
\* free-function workers (thread.cpp:170 uses 3), kept small here.
foo_count == 1
free_count == 1

\* Ticks of system_clock in one millisecond (the clock is finer than 1 ms).
ticks_per_ms == 4

VARIABLES
    seq_counter,   \* atomic<int> seq_counter
    console,       \* what cout has received, one element per piece of text
    mpc,           \* main's position
    hw,            \* insertions done of main's hardware-concurrency statement
    i,             \* main's loop variable
    size,          \* main's const auto size
    hardware_concurrency,  \* what thread::hardware_concurrency() reports here
    threads,       \* main's vector<thread>
    pto,           \* thread id -> activation of print_thread_output
    exit_code,     \* process exit code, -1 while running
    now,           \* a reading of system_clock, in ticks since the epoch
    tz,            \* offset of local time from UTC, in seconds
    stamp          \* the string current_timestamp returned, <<>> before the call

pvars == <<seq_counter, console, mpc, hw, i, size, hardware_concurrency,
           threads, pto, exit_code>>
tvars == <<now, tz, stamp>>
vars == <<pvars, tvars>>

\* ANSI colours
YELLOW == "\\033[33m"
GREEN == "\\033[32m"
BLUE == "\\033[34m"
RESET == "\\033[0m"

\* thread id of main; worker k of the vector has id k
MainTid == 0

\* values thread::hardware_concurrency() reports on the machines tried
\* (0 when the value is not computable)
HwValues == {0, 8}

----------------------------------------------------------------------------
\* std::to_string / operator<<(int) for a non-negative int: decimal digits
Digit(d) == CASE d = 0 -> "0" [] d = 1 -> "1" [] d = 2 -> "2" [] d = 3 -> "3"
              [] d = 4 -> "4" [] d = 5 -> "5" [] d = 6 -> "6" [] d = 7 -> "7"
              [] d = 8 -> "8" [] d = 9 -> "9"

RECURSIVE to_string(_)
to_string(n) == IF n < 10 THEN <<Digit(n)>>
                ELSE to_string(n \div 10) \o <<Digit(n % 10)>>

\* faulty variants of fetch_add: a plain load, a pre-increment, a decrement
fetch_add_load(c, n) == [ret |-> c, val |-> c]
fetch_add_pre(c, n) == [ret |-> c + n, val |-> c + n]
fetch_add_sub(c, n) == [ret |-> c, val |-> c - n]

\* atomic<int>::fetch_add(n): returns the value held, stores value + n
fetch_add(c, n) == [ret |-> c, val |-> c + n]

\* initial value of seq_counter
seq_counter_init == 1

\* A piece of console text: the thread that inserted it and what it is.
\* The text of a piece follows from the two: a header line is
\* color "[" timestamp "] #" seq " [" label "]", a function line is
\* "  Function : " func_name, with color, label and func_name those of the
\* one call its thread makes (PieceCall below); only seq is kept in the piece.
Plain(t, k) == [by |-> t, kind |-> k]

\* the contents of ss in print_thread_output: four lines, the first one
\* beginning with the colour prefix
Block(t, seq) ==
    << [by |-> t, kind |-> "header", seq |-> seq],
       Plain(t, "function"),
       Plain(t, "thread_id"),
       Plain(t, "separator") >>

\* faulty variant of Insertions: every line inserted into cout directly,
\* without ss
Insertions_per_line(t, seq) ==
    [k \in 1..(Len(Block(t, seq)) + 1) |->
        IF k <= Len(Block(t, seq)) THEN <<Block(t, seq)[k]>>
        ELSE <<Plain(t, "reset")>>]

\* the insertions of "cout << ss.str() << RESET", in order
Insertions(t, seq) == << Block(t, seq), <<Plain(t, "reset")>> >>

\* the arguments of a call print_thread_output(color, label, func_name)
Call(c, l, f) == [color |-> c, label |-> l, func |-> f]

\* free_function(id) and Foo::member_function(id): the call each makes
free_function(id) ==
    Call(GREEN, <<"free_function #">> \o to_string(id), "free_function")

\* faulty variant of member_function: the label copied from free_function
member_function_copied(id) ==
    Call(BLUE, <<"free_function #">> \o to_string(id), "member_function")

member_function(id) ==
    Call(BLUE, <<"Foo::member_function #">> \o to_string(id), "member_function")

\* main's call
main_call == Call(YELLOW, <<"main">>, "main")

\* the call thread t makes, th being the vector of threads: main is thread
\* MainTid, the thread of th[t] runs the function it was created with
CallOf(t, th) ==
    IF t = MainTid THEN main_call
    ELSE IF th[t].kind = "foo" THEN member_function(th[t].id)
    ELSE free_function(th[t].id)

\* the arguments of the call that put piece pc on the console
PieceCall(pc, th) == CallOf(pc.by, th)

\* a fresh activation of print_thread_output: about to fetch_add, no
\* sequence number yet, nothing inserted into cout
Activation == [pc |-> "fetch", seq |-> 0, ins |-> 0]

----------------------------------------------------------------------------
\* current_timestamp

\* integer division and remainder of C++: the quotient is truncated toward 0
TruncDiv(a, b) == IF a >= 0 THEN a \div b ELSE -((-a) \div b)
TruncRem(a, b) == a - b * TruncDiv(a, b)

\* faulty variant of duration_cast_ms: rounding to the nearest millisecond
duration_round_ms(d) == TruncDiv(2 * d + ticks_per_ms, 2 * ticks_per_ms)

\* chrono::duration_cast<milliseconds>(d).count(), d in ticks
duration_cast_ms(d) == TruncDiv(d, ticks_per_ms)

\* chrono::system_clock::to_time_t(t): whole seconds since the epoch
to_time_t(t) == TruncDiv(t, ticks_per_ms * 1000)

\* localtime_r / localtime_s: the time-of-day fields of struct tm
localtime(t_c, off) ==
    LET s == t_c + off IN
    [tm_hour |-> (s \div 3600) % 24, tm_min |-> (s \div 60) % 60, tm_sec |-> s % 60]

\* operator<<(long long): a minus sign before the digits of a negative value
IntText(n) == IF n < 0 THEN <<"-">> \o to_string(-n) ELSE to_string(n)

\* setfill(c) << setw(w) << txt: c is put before txt up to width w
RECURSIVE setw(_, _, _)
setw(w, c, txt) == IF Len(txt) >= w THEN txt ELSE setw(w, c, <<c>> \o txt)

\* put_time(&local_tm, "%H:%M:%S")
put_time(tm) ==
    setw(2, "0", to_string(tm.tm_hour)) \o <<":">> \o
    setw(2, "0", to_string(tm.tm_min)) \o <<":">> \o
    setw(2, "0", to_string(tm.tm_sec))

current_timestamp(t, off) ==
    LET ms == TruncRem(duration_cast_ms(t), 1000)
        t_c == to_time_t(t)
        local_tm == localtime(t_c, off)
    IN put_time(local_tm) \o <<".">> \o setw(3, "0", IntText(ms))

\* clock readings tried: every tick of four seconds that end a minute, an hour
\* and a day, and some readings before the epoch
ClockSeconds == {0, 59, 3599, 86399}

ClockValues ==
    { (sec * 1000 + m) * ticks_per_ms + k :
        sec \in ClockSeconds, m \in 0..999, k \in 0..(ticks_per_ms - 1) }
    \cup { -(m * ticks_per_ms + k) : m \in {0, 1, 999, 1000, 1001},
                                     k \in 1..(ticks_per_ms - 1) }

\* local time zones tried: UTC and UTC+8
TzOffsets == {0, 28800}

----------------------------------------------------------------------------
InitProgram ==
    /\ seq_counter = seq_counter_init
    /\ console = <<>>
    /\ mpc = "print"
    /\ hw = 0
    /\ i = 0
    /\ size = 0
    /\ threads = <<>>
    /\ pto = (MainTid :> Activation)
    /\ exit_code = -1

\* a machine with 8 hardware threads
Init ==
    /\ InitProgram
    /\ hardware_concurrency = 8
    /\ now = 0
    /\ tz = 0
    /\ stamp = <<>>

----------------------------------------------------------------------------
\* print_thread_output, run by thread t

\* int seq = seq_counter.fetch_add(1);
PTO_fetch(t) ==
    /\ pto[t].pc = "fetch"
    /\ LET r == fetch_add(seq_counter, 1) IN
         /\ seq_counter' = r.val
         /\ pto' = [pto EXCEPT ![t].seq = r.ret, ![t].pc = "write"]
    /\ UNCHANGED console

\* faulty variant of PTO_insert: the header is composed from a second
\* fetch_add instead of the local seq
PTO_insert_refetch(t) ==
    /\ pto[t].pc = "write"
    /\ LET ins == Insertions(t, pto[t].seq)
           k == pto[t].ins + 1
       IN /\ console' = console \o ins[k]
          /\ pto' = [pto EXCEPT ![t].ins = k,
                                ![t].pc = IF k = Len(ins) THEN "ret" ELSE "write"]
    /\ seq_counter' = fetch_add(seq_counter, 1).val

\* the next insertion of cout << ss.str() << "\033[0m"; the call returns
\* after the last one
PTO_insert(t) ==
    /\ pto[t].pc = "write"
    /\ LET ins == Insertions(t, pto[t].seq)
           k == pto[t].ins + 1
       IN /\ console' = console \o ins[k]
          /\ pto' = [pto EXCEPT ![t].ins = k,
                                ![t].pc = IF k = Len(ins) THEN "ret" ELSE "write"]
    /\ UNCHANGED seq_counter

print_thread_output(t) == PTO_fetch(t) \/ PTO_insert(t)

\* faulty variants of finished: a join that does not wait, a join that
\* never returns
finished_nowait(t) == TRUE
finished_never(t) == FALSE

\* the thread of execution behind threads[t] has finished
finished(t) == pto[t].pc = "ret"

----------------------------------------------------------------------------
\* main

\* print_thread_output("\033[33m", "main", __func__);
MainPrint ==
    /\ mpc = "print"
    /\ print_thread_output(MainTid)
    /\ UNCHANGED <<mpc, hw, i, size, hardware_concurrency, threads, exit_code,
                   tvars>>

\* faulty variant of HwLine: the separator line after the value is left out
HwLine_unseparated(n) ==
    << Plain(MainTid, "hw_open"), Plain(MainTid, "hw_timestamp"),
       Plain(MainTid, "hw_close"), Plain(MainTid, "hw_text"),
       [by |-> MainTid, kind |-> "hw_size", text |-> to_string(n)],
       Plain(MainTid, "hw_newline") >>

\* the insertions of the hardware-concurrency statement, in order
HwLine(n) ==
    << Plain(MainTid, "hw_open"), Plain(MainTid, "hw_timestamp"),
       Plain(MainTid, "hw_close"), Plain(MainTid, "hw_text"),
       [by |-> MainTid, kind |-> "hw_size", text |-> to_string(n)],
       Plain(MainTid, "hw_newline"), Plain(MainTid, "separator") >>

\* const auto size = thread::hardware_concurrency();
MainHardwareConcurrency ==
    /\ mpc = "print"
    /\ pto[MainTid].pc = "ret"
    /\ size' = hardware_concurrency
    /\ mpc' = "hw"
    /\ UNCHANGED <<seq_counter, console, hw, i, hardware_concurrency, threads,
                   pto, exit_code, tvars>>

\* cout << "[" << current_timestamp() << "] " << "Hardware concurrency: "
\*      << size << "\n" << "---------------------------------\n";
MainHwInsert ==
    /\ mpc = "hw"
    /\ console' = Append(console, HwLine(size)[hw + 1])
    /\ hw' = hw + 1
    /\ mpc' = IF hw + 1 = Len(HwLine(size)) THEN "spawn_foo" ELSE "hw"
    /\ UNCHANGED <<seq_counter, i, size, hardware_concurrency, threads, pto,
                   exit_code, tvars>>

\* threads.emplace_back(f, id): a new thread of execution starts, which
\* calls f(id) and in it print_thread_output
emplace_back(k, id) ==
    /\ threads' = Append(threads, [kind |-> k, id |-> id, joinable |-> TRUE])
    /\ pto' = pto @@ ((Len(threads) + 1) :> Activation)

\* for (int i = 0; i < foo_count; ++i)
\*     threads.emplace_back(&Foo::member_function, &foos[i], i + 1);
MainSpawnFoo ==
    /\ mpc = "spawn_foo"
    /\ IF i < foo_count
       THEN /\ emplace_back("foo", i + 1)
            /\ i' = i + 1
            /\ UNCHANGED mpc
       ELSE /\ mpc' = "spawn_free"
            /\ i' = 0
            /\ UNCHANGED <<threads, pto>>
    /\ UNCHANGED <<seq_counter, console, hw, size, hardware_concurrency,
                   exit_code, tvars>>

\* faulty variant of MainSpawnFree: the loop runs to size
MainSpawnFree_sized ==
    /\ mpc = "spawn_free"
    /\ IF i < size
       THEN /\ emplace_back("free", i + 1)
            /\ i' = i + 1
            /\ UNCHANGED mpc
       ELSE /\ mpc' = "join"
            /\ i' = 0
            /\ UNCHANGED <<threads, pto>>
    /\ UNCHANGED <<seq_counter, console, hw, size, hardware_concurrency,
                   exit_code, tvars>>

\* for (int i = 0; i < free_count; ++i)
\*     threads.emplace_back(free_function, i + 1);
MainSpawnFree ==
    /\ mpc = "spawn_free"
    /\ IF i < free_count
       THEN /\ emplace_back("free", i + 1)
            /\ i' = i + 1
            /\ UNCHANGED mpc
       ELSE /\ mpc' = "join"
            /\ i' = 0
            /\ UNCHANGED <<threads, pto>>
    /\ UNCHANGED <<seq_counter, console, hw, size, hardware_concurrency,
                   exit_code, tvars>>

\* faulty variant of joinable: the test negated
joinable_negated(th) == ~th.joinable

\* thread::joinable()
joinable(th) == th.joinable

\* for (auto& t : threads) if (t.joinable()) t.join();   then return 0
\* join() returns once the thread has finished
MainJoin ==
    /\ mpc = "join"
    /\ IF i < Len(threads)
       THEN /\ IF joinable(threads[i + 1])
               THEN /\ finished(i + 1)
                    /\ threads' = [threads EXCEPT ![i + 1].joinable = FALSE]
               ELSE UNCHANGED threads
            /\ i' = i + 1
            /\ UNCHANGED <<mpc, exit_code>>
       ELSE /\ mpc' = "done"
            /\ exit_code' = 0
            /\ UNCHANGED <<i, threads>>
    /\ UNCHANGED <<seq_counter, console, hw, size, hardware_concurrency, pto,
                   tvars>>

\* a worker thread: the body of member_function / free_function
WorkerBody(t) ==
    /\ print_thread_output(t)
    /\ UNCHANGED <<mpc, hw, i, size, hardware_concurrency, threads, exit_code,
                   tvars>>

\* the process has not ended; its threads run only while this holds
running == exit_code < 0

Worker(t) ==
    /\ t \in DOMAIN pto
    /\ running
    /\ WorkerBody(t)

Workers == \E t \in 1..(foo_count + free_count) : Worker(t)

Main ==
    \/ MainPrint
    \/ MainHardwareConcurrency
    \/ MainHwInsert
    \/ MainSpawnFoo
    \/ MainSpawnFree
    \/ MainJoin

Next == Main \/ Workers

Spec == Init /\ [][Next]_vars

\* the same program on any of the machines of HwValues
InitAnyHw ==
    /\ InitProgram
    /\ hardware_concurrency \in HwValues
    /\ now = 0
    /\ tz = 0
    /\ stamp = <<>>

SpecAnyHw == InitAnyHw /\ [][Next]_vars

\* The scheduler does not stop while some thread can take a step.  This is
\* all that is assumed; a scheduler fair to every thread satisfies it.
FairSpec == Spec /\ WF_vars(Next)

----------------------------------------------------------------------------
\* Thread creation can fail: the constructor of std::thread throws
\* std::system_error when the system cannot start a thread.  main has no
\* handler, so the exception leaves main, std::terminate is called and the
\* process is aborted (status 134 = 128 + SIGABRT), workers included.  The
\* failed emplace_back adds nothing to threads.

\* faulty variant of MainSpawnFails: the exception is caught and ignored,
\* the loop goes on
MainSpawnFails_ignored ==
    /\ \/ mpc = "spawn_foo" /\ i < foo_count
       \/ mpc = "spawn_free" /\ i < free_count
    /\ i' = i + 1
    /\ UNCHANGED <<seq_counter, console, mpc, hw, size, hardware_concurrency,
                   threads, pto, exit_code, tvars>>

\* threads.emplace_back(...) throws
MainSpawnFails ==
    /\ \/ mpc = "spawn_foo" /\ i < foo_count
       \/ mpc = "spawn_free" /\ i < free_count
    /\ mpc' = "terminated"
    /\ exit_code' = 134
    /\ UNCHANGED <<seq_counter, console, hw, i, size, hardware_concurrency,
                   threads, pto, tvars>>

NextFail == Next \/ MainSpawnFails

SpecFail == Init /\ [][NextFail]_vars

----------------------------------------------------------------------------
\* current_timestamp on its own: one call on an arbitrary clock reading

InitTime ==
    /\ InitProgram
    /\ hardware_concurrency = 8
    /\ now \in ClockValues
    /\ tz \in TzOffsets
    /\ stamp = <<>>

CallCurrentTimestamp ==
    /\ stamp = <<>>
    /\ stamp' = current_timestamp(now, tz)
    /\ UNCHANGED <<pvars, now, tz>>

NextTime == CallCurrentTimestamp

SpecTime == InitTime /\ [][NextTime]_vars

\* the program, with a call of current_timestamp at any moment
NextFrame == Next \/ NextTime

SpecFrame == Init /\ [][NextFrame]_vars

----------------------------------------------------------------------------
\* Properties

Tids == DOMAIN pto
WorkerTids == Tids \ {MainTid}

\* thread t's call has done its fetch_add
Fetched(t) == pto[t].pc # "fetch"

\* positions of the console holding a piece of kind k
At(k) == {p \in DOMAIN console : console[p].kind = k}

\* positions p..p+3 hold the four lines of one call's block
BlockAt(p) ==
    /\ p >= 1
    /\ p + 3 <= Len(console)
    /\ console[p].kind = "header"
    /\ console[p + 1].kind = "function"
    /\ console[p + 2].kind = "thread_id"
    /\ console[p + 3].kind = "separator"
    /\ \A d \in 1..3 : console[p + d].by = console[p].by

\* position p + 1 holds a piece of kind k put there by the thread of position p
Follows(p, k) ==
    /\ p >= 1
    /\ p + 1 <= Len(console)
    /\ console[p + 1].kind = k
    /\ console[p + 1].by = console[p].by

\* C1: no two print_thread_output calls obtain the same sequence number
\* from seq_counter.
C1_DistinctSeq ==
    \A a, b \in Tids :
        (a # b /\ Fetched(a) /\ Fetched(b)) => pto[a].seq # pto[b].seq

\* two workers hold a sequence number at once, neither has printed yet
C1_Witness ==
    \E a, b \in WorkerTids :
        /\ a # b
        /\ pto[a].pc = "write" /\ pto[a].ins = 0
        /\ pto[b].pc = "write" /\ pto[b].ins = 0

\* C2: the four lines of every call's block (header, Function, Thread ID,
\* separator) are contiguous on the console: nothing of another call lies
\* between them.
C2_BlockContiguous ==
    /\ \A p \in DOMAIN console :
          LET k == console[p].kind IN
          IF k = "header" THEN p < Len(console) => Follows(p, "function")
          ELSE IF k = "function"
          THEN /\ Follows(p - 1, "function")
               /\ console[p - 1].kind = "header"
               /\ p < Len(console) => Follows(p, "thread_id")
          ELSE IF k = "thread_id"
          THEN /\ Follows(p - 1, "thread_id")
               /\ console[p - 1].kind = "function"
               /\ p < Len(console) => Follows(p, "separator")
          ELSE IF k = "separator"
          THEN /\ Follows(p - 1, "separator")
               /\ console[p - 1].kind \in {"thread_id", "hw_newline"}
          ELSE TRUE
    /\ mpc = "done" => \A p \in At("header") : BlockAt(p)

\* two workers were both about to write and both blocks are on the console,
\* the second written while the first call had not returned
C2_Witness ==
    \E a, b \in WorkerTids :
        /\ a # b
        /\ pto[a].pc = "write" /\ pto[a].ins = 1
        /\ \E p, q \in At("header") :
              p < q /\ console[p].by = a /\ console[q].by = b

\* C3: each call's reset suffix directly follows that call's separator line:
\* block and reset reach the console as one write.
C3_ResetFollowsBlock ==
    \A p \in At("separator") :
        (BlockAt(p - 3) /\ p < Len(console)) => Follows(p, "reset")

\* number of worker threads the program starts (7 in thread.cpp)
NumWorkers == foo_count + free_count

\* sequence numbers printed in the headers on the console
PrintedSeqs == {console[p].seq : p \in At("header")}

\* C4: when the program has run to completion the console holds exactly
\* NumWorkers + 1 log blocks (8 in thread.cpp) and their sequence numbers
\* are exactly 1..NumWorkers + 1.
C4_AllBlocksAtExit ==
    mpc = "done" =>
        /\ Cardinality(At("header")) = NumWorkers + 1
        /\ \A p \in At("header") : BlockAt(p)
        /\ PrintedSeqs = 1..(NumWorkers + 1)

C4_Witness == mpc = "done" /\ Len(threads) = NumWorkers /\ exit_code = 0

\* C5: once main's join loop has returned, every worker thread has
\* terminated and has emitted exactly one log block; the number of worker
\* blocks equals the number of threads created.
C5_JoinCompleteness ==
    mpc = "done" =>
        /\ Len(threads) = NumWorkers
        /\ WorkerTids = 1..NumWorkers
        /\ \A t \in WorkerTids :
              /\ pto[t].pc = "ret"
              /\ Cardinality({p \in At("header") : console[p].by = t}) = 1
        /\ Cardinality({p \in At("header") : console[p].by # MainTid}) = Len(threads)

\* main has returned, every thread was joined, and the worker created last
\* printed before the worker created first
C5_Witness ==
    /\ mpc = "done"
    /\ \A t \in 1..NumWorkers : ~threads[t].joinable
    /\ \E p, q \in At("header") :
          p < q /\ console[p].by = NumWorkers /\ console[q].by = 1

\* C6: main's block always holds sequence number 1: main's fetch_add is done
\* before any worker thread exists, and no worker ever obtains 1.
C6_MainHoldsOne ==
    /\ Fetched(MainTid) => pto[MainTid].seq = 1
    /\ WorkerTids # {} => Fetched(MainTid)
    /\ \A t \in WorkerTids : Fetched(t) => pto[t].seq # 1
    /\ \A p \in At("header") : console[p].by = MainTid <=> console[p].seq = 1

C6_Witness ==
    /\ \E t \in WorkerTids : Fetched(t)
    /\ \E p \in At("header") : console[p].by = MainTid

\* C7: under fair scheduling the program terminates normally: every worker
\* runs to completion and main returns exit code 0.  (A reachable deadlock
\* before main's return would be a fair behaviour that never gets there, so
\* the formula excludes it.)
C7_Terminates ==
    <>(/\ mpc = "done"
       /\ exit_code = 0
       /\ \A t \in 1..NumWorkers : t \in Tids /\ pto[t].pc = "ret")

\* main is blocked in join on a worker that has not finished
C7_Witness ==
    /\ mpc = "join"
    /\ i < Len(threads)
    /\ pto[i + 1].pc # "ret"

\* C8: a call whose fetch_add takes effect after another call's fetch_add
\* (in particular after another call has returned) gets a strictly larger
\* sequence number.
C8_SeqFollowsFetchOrder ==
    [][\A b \in Tids :
          (pto[b].pc = "fetch" /\ b \in DOMAIN pto' /\ pto'[b].pc = "write")
             => \A a \in Tids \ {b} : Fetched(a) => pto[a].seq < pto'[b].seq]_vars

\* two workers have done their fetch_add, both after main's call had
\* returned and one after the other
C8_Witness ==
    /\ pto[MainTid].pc = "ret"
    /\ \E a, b \in WorkerTids : a # b /\ Fetched(a) /\ Fetched(b)

\* C9: sequence order and console order are tied only for main: a block with
\* a larger sequence number can precede one with a smaller number, and when
\* it does both blocks come from two different worker threads.
C9_InversionsOnlyAcrossWorkers ==
    \A p, q \in At("header") :
        (p < q /\ console[p].seq > console[q].seq)
            => /\ console[p].by # MainTid
               /\ console[q].by # MainTid
               /\ console[p].by # console[q].by

\* a worker's block with a larger number is on the console before another
\* worker's block with a smaller number
C9_Witness ==
    \E p, q \in At("header") :
        /\ p < q
        /\ console[p].seq > console[q].seq
        /\ console[p].by # MainTid
        /\ console[q].by # MainTid

\* value of a digit character
DigitVal(c) == CHOOSE d \in 0..9 : Digit(d) = c

\* the fields of a stamp HH:MM:SS.mmm
IsDigit(c) == \E d \in 0..9 : Digit(d) = c
SecField(st) == 10 * DigitVal(st[7]) + DigitVal(st[8])
MsField(st) == 100 * DigitVal(st[10]) + 10 * DigitVal(st[11]) + DigitVal(st[12])

\* C10: for a non-negative clock reading the millisecond field is the
\* sub-second remainder truncated to whole milliseconds, in 0..999, printed
\* as exactly 3 digits, and the seconds field is that of the reading's own
\* second.
C10_MillisTruncated ==
    (stamp # <<>> /\ now >= 0) =>
        /\ Len(stamp) = 12
        /\ stamp[9] = "."
        /\ \A k \in {7, 8, 10, 11, 12} : IsDigit(stamp[k])
        /\ MsField(stamp) \in 0..999
        /\ MsField(stamp) = (now \div ticks_per_ms) % 1000
        /\ LET sub == now % (1000 * ticks_per_ms) IN
              /\ MsField(stamp) * ticks_per_ms <= sub
              /\ sub < (MsField(stamp) + 1) * ticks_per_ms
        /\ SecField(stamp) = (now \div (1000 * ticks_per_ms)) % 60

\* a reading in the last half millisecond of a second has been formatted
C10_Witness ==
    /\ stamp # <<>>
    /\ now >= 0
    /\ 2 * (now % (1000 * ticks_per_ms)) >= 1999 * ticks_per_ms
    /\ MsField(stamp) = 999

\* header pieces on the console put there by thread t
HeadersOf(t) == {p \in At("header") : console[p].by = t}

\* label printed in the header at position p
LabelAt(p) == PieceCall(console[p], threads).label

MainPrefixKinds ==
    << "header", "function", "thread_id", "separator", "reset",
       "hw_open", "hw_timestamp", "hw_close", "hw_text", "hw_size",
       "hw_newline", "separator" >>

\* C12: the console begins with main's complete block and its reset suffix,
\* then the hardware-concurrency line and its separator line, all written by
\* main; worker output comes only after them, and no worker thread exists
\* before they are complete.
C12_MainOutputFirst ==
    /\ \A p \in 1..Len(console) :
          IF p <= Len(MainPrefixKinds)
          THEN /\ console[p].by = MainTid
               /\ console[p].kind = MainPrefixKinds[p]
          ELSE console[p].by # MainTid
    /\ WorkerTids # {} => Len(console) >= Len(MainPrefixKinds)

\* worker output is on the console
C12_Witness ==
    /\ Len(console) > Len(MainPrefixKinds)
    /\ console[Len(console)].by \in WorkerTids

\* C13: only the fetch_add step of print_thread_output changes seq_counter,
\* and it adds one.  Taking a timestamp, writing to the console (the
\* hardware-concurrency line, a block, a reset), creating a thread and
\* joining one leave it as it is.
C13_OnlyFetchAddWrites ==
    [][ /\ seq_counter' # seq_counter =>
              \E t \in Tids :
                 /\ pto[t].pc = "fetch"
                 /\ pto'[t].pc = "write"
                 /\ pto'[t].seq = seq_counter
                 /\ seq_counter' = seq_counter + 1
        /\ (stamp' # stamp \/ console' # console \/ threads' # threads)
              => seq_counter' = seq_counter ]_vars

\* a timestamp was taken, the output is written, the threads were created
\* and joined, and the counter has moved
C13_Witness ==
    /\ stamp # <<>>
    /\ mpc = "done"
    /\ seq_counter > seq_counter_init

\* number of fetch_add operations performed so far
FetchAdds == Cardinality({t \in Tids : Fetched(t)})

\* C14: seq_counter is the initial 1 plus the number of fetch_add operations
\* performed so far; it never exceeds one more than the number of calls
\* (main's and one per worker: 9 in the program), has exactly that value
\* when the program exits, and no step decreases or resets it.
C14_CounterValue ==
    /\ [](/\ seq_counter = 1 + FetchAdds
          /\ seq_counter >= 1
          /\ seq_counter <= NumWorkers + 2
          /\ mpc = "done" => seq_counter = NumWorkers + 2)
    /\ [][seq_counter' >= seq_counter]_vars

\* the program has exited
C14_Witness ==
    /\ mpc = "done"
    /\ exit_code = 0
    /\ FetchAdds = NumWorkers + 1

\* the thread table main builds: foo_count member-function threads, then
\* free_count free-function threads, each numbered from 1
ThreadsCreated ==
    [t \in 1..NumWorkers |->
        IF t <= foo_count THEN [kind |-> "foo", id |-> t]
                          ELSE [kind |-> "free", id |-> t - foo_count]]

\* the labels of the blocks on the console
PrintedLabels == {LabelAt(p) : p \in At("header")}

C16_CreationFailure ==
    /\ [](/\ mpc = "terminated" =>
                /\ ~running
                /\ exit_code # 0
                /\ Len(threads) < NumWorkers
                /\ \A t \in 1..Len(threads) : threads[t].joinable
          /\ mpc \in {"join", "done"} => Len(threads) = NumWorkers
          /\ exit_code = 0 => mpc = "done")
    /\ [][mpc # "terminated"]_vars

\* a thread creation has failed while a worker started earlier had not
\* finished: the process ended without waiting for it
C16_Witness ==
    /\ mpc = "terminated"
    /\ \E t \in WorkerTids : pto[t].pc # "ret"

====
